---- MODULE Spec2Model ----
(***************************************************************************)
(* The embedded Phoenix process supervisor of src-tauri/src/main.rs as a   *)
(* state machine: the startup sequence of main() in development and        *)
(* production builds, the readiness probe wait_for_server, the menu event  *)
(* handler and the RunEvent::Exit handler, together with the environment   *)
(* (the spawned child, other processes on the port, the passage of time).  *)
(***************************************************************************)
EXTENDS Integers, Sequences, FiniteSets, TLC

VARIABLES
    mode,          \* "dev" (cfg(debug_assertions)) or "prod"
    os,            \* target_os the binary was built for
    pc,            \* position of the main thread
    abort,         \* "none", or the panic that ended the process
    log,           \* lines appended by log_to_file, as message tags
    port,          \* Option<u16>: the port chosen in setup
    url,           \* the URL string built from the port
    phoenix_path,  \* path of the backend executable (sequence of components)
    env,           \* HOME, USERPROFILE, APPDATA as read by get_config_dir
    config_dir,    \* result of get_config_dir()
    dirs,          \* directories created by create_dir_all
    migration,     \* outcome of the one-shot migration call
    child,         \* state of the spawned server process
    childPort,     \* PORT in the environment the child was spawned with
    external,      \* another process listens on the probed port
    phoenix_child, \* Arc<Mutex<Option<Child>>>: the Option inside the mutex
    mutex,         \* who holds the mutex around phoenix_child
    spawnAttempts, \* number of calls of cmd.spawn()
    spawnCount,    \* number of calls of cmd.spawn() that returned Ok
    storeCount,    \* number of writes of Some(child) into phoenix_child
    killCount,     \* number of calls of child.kill()
    exitEvents,    \* number of RunEvent::Exit deliveries handled
    probePort,     \* port argument of wait_for_server
    elapsed,       \* ms since wait_for_server took `start`
    sleepLeft,     \* ms left of the current thread::sleep
    attempts,      \* connection attempts made by this call of wait_for_server
    acceptSince,   \* elapsed time at which the port last began accepting
    seenSince,     \* acceptSince as seen by the successful attempt
    ready,         \* return value of wait_for_server: "unknown"/"true"/"false"
    window,        \* "none", "created", "shown", "closed"
    windowUrl,     \* URL the window was given
    navigations,   \* number of times a URL was handed to the window
    zoom,          \* document.body.style.zoom in tenths; 0 is unset
    lastMenu       \* the last menu event: its id and the zoom it found

vars == <<mode, os, pc, abort, log, port, url, phoenix_path, env, config_dir, dirs,
          migration, child, childPort, external, phoenix_child, mutex,
          spawnAttempts, spawnCount, storeCount, killCount, exitEvents,
          probePort, elapsed, sleepLeft, attempts, acceptSince, seenSince, ready,
          window, windowUrl, navigations, zoom, lastMenu>>

(***************************************************************************)
(* Program constants.                                                      *)
(***************************************************************************)
DEFAULT_PORT == 4000
MAX_STARTUP_WAIT_SECS == 30
\* Duration::from_millis(500) of the sleep between two attempts
SleepMillis == 500

(***************************************************************************)
(* Bounds of the model.                                                    *)
(***************************************************************************)
\* how many times the host may deliver RunEvent::Exit
MaxExitEvents == 2
\* largest scale, in tenths, from which zoom_in is still dispatched
MaxZoom == 13

\* resolution of the clock: events of the environment fall on half intervals
Granule == SleepMillis \div 2
TimeoutMillis == MAX_STARTUP_WAIT_SECS * 1000
NoTime == 0 - 1

Modes == {"dev", "prod"}
OSes == {"macos", "windows", "linux"}

\* Rust's Option
None == <<>>
Some(x) == <<x>>
unwrap_or(o, d) == IF o = None THEN d ELSE o[1]

\* ports TcpListener::bind("127.0.0.1:0") may hand out
EphemeralPorts == {49152}
\* values of the environment variables read by get_config_dir
HomeValues == {None, Some("/home/u")}
UserProfileValues == {None, Some("C:/Users/u")}
AppDataValues == {None, Some("C:/Users/u/AppData/Roaming")}

log_to_file(l, message) == Append(l, message)
Logged(message) == \E i \in DOMAIN log : log[i] = message

\* get_free_port(): Some(port) of a listener bound to port 0, None on error
get_free_port == {None} \cup {Some(p) : p \in EphemeralPorts}

\* format!("http://127.0.0.1:{}", port)
ProdUrl(p) == <<"http", "127.0.0.1", p>>
\* format!("http://localhost:{}", DEFAULT_PORT)
DevUrl == <<"http", "localhost", DEFAULT_PORT>>
NoUrl == <<>>

\* faulty variant: USERPROFILE is read before HOME
get_config_dir_UserProfileFirst(target, HOME, USERPROFILE, APPDATA) ==
    LET home_dir == IF USERPROFILE # None THEN USERPROFILE ELSE HOME
    IN  IF home_dir = None THEN None
        ELSE CASE target = "macos" ->
                    Some(<<home_dir[1], "Library", "Application Support", "clientats">>)
               [] target = "windows" ->
                    IF APPDATA # None
                    THEN Some(<<APPDATA[1], "clientats">>)
                    ELSE Some(<<home_dir[1], "AppData", "Roaming", "clientats">>)
               [] OTHER ->
                    Some(<<home_dir[1], ".config", "clientats">>)

\* get_config_dir(): Some(path), or None where .expect() panics
get_config_dir(target, HOME, USERPROFILE, APPDATA) ==
    LET home_dir == IF HOME # None THEN HOME ELSE USERPROFILE
    IN  IF home_dir = None THEN None
        ELSE CASE target = "macos" ->
                    Some(<<home_dir[1], "Library", "Application Support", "clientats">>)
               [] target = "windows" ->
                    IF APPDATA # None
                    THEN Some(<<APPDATA[1], "clientats">>)
                    ELSE Some(<<home_dir[1], "AppData", "Roaming", "clientats">>)
               [] OTHER ->
                    Some(<<home_dir[1], ".config", "clientats">>)

\* the Phoenix release path below the resource directory
PhoenixPath(target) ==
    CASE target = "macos" -> <<"resource_dir", "phoenix", "bin", "clientats">>
      [] target = "windows" -> <<"resource_dir", "phoenix", "bin", "clientats.bat">>
      [] OTHER -> <<"resource_dir", "phoenix", "bin", "clientats">>

\* is_port_reachable(format!("127.0.0.1:{}", port))
is_port_reachable == child = "listening" \/ external

\* start.elapsed().as_secs()
as_secs(ms) == ms \div 1000

Init ==
    /\ mode \in Modes
    /\ os \in OSes
    /\ pc = "main"
    /\ abort = "none"
    /\ log = <<>>
    /\ port = None
    /\ url = NoUrl
    /\ phoenix_path = <<>>
    /\ env = None
    /\ config_dir = None
    /\ dirs = {}
    /\ migration = "none"
    /\ child = "unspawned"
    /\ childPort = None
    /\ external = FALSE
    /\ phoenix_child = None
    /\ mutex = "free"
    /\ spawnAttempts = 0
    /\ spawnCount = 0
    /\ storeCount = 0
    /\ killCount = 0
    /\ exitEvents = 0
    /\ probePort = None
    /\ elapsed = 0
    /\ sleepLeft = 0
    /\ attempts = 0
    /\ acceptSince = NoTime
    /\ seenSince = NoTime
    /\ ready = "unknown"
    /\ window = "none"
    /\ windowUrl = NoUrl
    /\ navigations = 0
    /\ zoom = 0
    /\ lastMenu = None

\* variable groups, for UNCHANGED
setupVars == <<port, url, phoenix_path, env, config_dir, dirs, migration>>
childVars == <<child, childPort, external, acceptSince>>
handleVars == <<phoenix_child, mutex, spawnAttempts, spawnCount, storeCount,
                killCount, exitEvents>>
probeVars == <<probePort, elapsed, sleepLeft, attempts, seenSince, ready>>
windowVars == <<window, windowUrl, navigations, zoom, lastMenu>>

\* panic!/expect: the process ends; RunEvent::Exit is not delivered
Panic(cause) ==
    /\ pc' = "Terminated"
    /\ abort' = cause

(***************************************************************************)
(* The environment: the spawned server, other processes, the clock.        *)
(***************************************************************************)
\* the spawned server binds its port and starts accepting
ChildListens ==
    /\ child = "starting"
    /\ ~external
    /\ child' = "listening"
    /\ acceptSince' = elapsed
    /\ UNCHANGED <<mode, os, pc, abort, log, setupVars, childPort, external,
                   handleVars, probeVars, windowVars>>

\* the spawned server exits on its own
ChildExits ==
    /\ child \in {"starting", "listening"}
    /\ child' = "exited"
    /\ acceptSince' = IF child = "listening" THEN NoTime ELSE acceptSince
    /\ UNCHANGED <<mode, os, pc, abort, log, setupVars, childPort, external,
                   handleVars, probeVars, windowVars>>

\* a process that is not the tracked child starts accepting on the port:
\* the externally started server of development mode, or any process that
\* binds the ephemeral port after get_free_port dropped its listener
ExternalListens ==
    /\ ~external
    /\ child # "listening"
    /\ mode = "dev" \/ port # None
    /\ external' = TRUE
    /\ acceptSince' = elapsed
    /\ UNCHANGED <<mode, os, pc, abort, log, setupVars, child, childPort,
                   handleVars, probeVars, windowVars>>

(***************************************************************************)
(* wait_for_server                                                         *)
(***************************************************************************)
\* entry: the log line and `start = Instant::now()`
WaitEnter ==
    /\ pc = "wait_for_server"
    /\ log' = log_to_file(log, "Waiting for Phoenix server on port")
    /\ elapsed' = 0
    /\ attempts' = 0
    /\ acceptSince' = IF is_port_reachable THEN 0 ELSE NoTime
    /\ pc' = "probe"
    /\ UNCHANGED <<mode, os, abort, setupVars, child, childPort, external,
                   handleVars, probePort, sleepLeft, seenSince, ready,
                   windowVars>>

\* faulty variant: the loop runs while as_secs() <= MAX_STARTUP_WAIT_SECS
LoopConditionInclusive(ms) == as_secs(ms) <= MAX_STARTUP_WAIT_SECS

\* faulty variant: the loop has no ceiling
LoopConditionNoCeiling(ms) == as_secs(ms) >= 0

\* while start.elapsed().as_secs() < MAX_STARTUP_WAIT_SECS
LoopCondition(ms) == as_secs(ms) < MAX_STARTUP_WAIT_SECS

\* faulty variant: the sleep between two attempts is twice as long
SleepTwice == 2 * SleepMillis

\* the argument of std::thread::sleep
SleepFor == SleepMillis

\* one evaluation of the loop condition and, inside the loop, one attempt
Probe ==
    /\ pc = "probe"
    /\ IF LoopCondition(elapsed)
       THEN /\ attempts' = attempts + 1
            /\ IF is_port_reachable
               THEN /\ log' = log_to_file(log, "Phoenix server is ready!")
                    /\ ready' = "true"
                    /\ seenSince' = acceptSince
                    /\ pc' = "returned"
                    /\ UNCHANGED sleepLeft
               ELSE /\ sleepLeft' = SleepFor
                    /\ pc' = "sleep"
                    /\ UNCHANGED <<log, ready, seenSince>>
       ELSE /\ log' = log_to_file(log, "Phoenix server failed to start within 30 seconds")
            /\ ready' = "false"
            /\ pc' = "returned"
            /\ UNCHANGED <<sleepLeft, attempts, seenSince>>
    /\ UNCHANGED <<mode, os, abort, setupVars, childVars, handleVars,
                   probePort, elapsed, windowVars>>

\* std::thread::sleep(Duration::from_millis(500)), one clock granule at a time
SleepTick ==
    /\ pc = "sleep"
    /\ elapsed' = elapsed + Granule
    /\ sleepLeft' = sleepLeft - Granule
    /\ pc' = IF sleepLeft' = 0 THEN "probe" ELSE "sleep"
    /\ UNCHANGED <<mode, os, abort, log, setupVars, childVars, handleVars,
                   probePort, attempts, seenSince, ready, windowVars>>

\* wait_for_server has returned: `start` and the clock read from it are gone
ProbeLocalsDropped ==
    /\ elapsed' = 0
    /\ sleepLeft' = 0
    /\ attempts' = 0
    /\ seenSince' = NoTime
    /\ acceptSince' = IF is_port_reachable THEN 0 ELSE NoTime

(***************************************************************************)
(* main, development build                                                 *)
(***************************************************************************)
\* the two log lines and the call of wait_for_server(DEFAULT_PORT, ..)
DevCheck ==
    /\ pc = "main"
    /\ mode = "dev"
    /\ log' = log_to_file(log_to_file(log, "Development mode: Checking Phoenix on port"),
                          "Log file")
    /\ probePort' = Some(DEFAULT_PORT)
    /\ pc' = "wait_for_server"
    /\ UNCHANGED <<mode, os, abort, setupVars, childVars, handleVars,
                   elapsed, sleepLeft, attempts, seenSince, ready, windowVars>>

\* the branch on the result: the failure is logged and main goes on
DevChecked ==
    /\ pc = "returned"
    /\ mode = "dev"
    /\ log' = IF ready = "false"
              THEN log_to_file(log_to_file(log, "ERROR: Phoenix server not running on port"),
                               "Start it with: mix phx.server")
              ELSE log_to_file(log, "Phoenix is ready! Launching Tauri window...")
    /\ pc' = "build"
    /\ ProbeLocalsDropped
    /\ UNCHANGED <<mode, os, abort, setupVars, child, childPort, external,
                   handleVars, probePort, ready, windowVars>>

(***************************************************************************)
(* tauri::Builder: build, then the setup closure                           *)
(***************************************************************************)
\* .build(tauri::generate_context!()).expect(..); the production build has
\* nothing to do before it
BuildApp ==
    /\ pc = IF mode = "dev" THEN "build" ELSE "main"
    /\ \E ok \in BOOLEAN :
          IF ok
          THEN pc' = "setup" /\ UNCHANGED abort
          ELSE Panic("build")
    /\ UNCHANGED <<mode, os, log, setupVars, childVars, handleVars, probeVars,
                   windowVars>>

\* faulty variant: setup takes the production branch in either build
CreateMenuAlwaysProd ==
    /\ pc = "setup"
    /\ \E ok \in BOOLEAN :
          IF ok
          THEN pc' = "prod_setup" /\ UNCHANGED abort
          ELSE Panic("setup_error")
    /\ UNCHANGED <<mode, os, log, setupVars, childVars, handleVars, probeVars,
                   windowVars>>

\* the menu of the setup closure: every `?` returns the error from setup,
\* which ends the process without a log line
CreateMenu ==
    /\ pc = "setup"
    /\ \E ok \in BOOLEAN :
          IF ok
          THEN pc' = (IF mode = "dev" THEN "dev_setup" ELSE "prod_setup")
               /\ UNCHANGED abort
          ELSE Panic("setup_error")
    /\ UNCHANGED <<mode, os, log, setupVars, childVars, handleVars, probeVars,
                   windowVars>>

\* development: the window of the configuration is navigated to DEFAULT_PORT
DevNavigate ==
    /\ pc = "dev_setup"
    /\ log' = log_to_file(log, "Dev mode: Window will load from devUrl in config")
    /\ \E found \in BOOLEAN, navigated \in BOOLEAN :
          IF ~found
          THEN Panic("dev_window") /\ UNCHANGED <<window, windowUrl, navigations>>
          ELSE /\ window' = "shown"
               /\ IF navigated
                  THEN /\ windowUrl' = DevUrl
                       /\ navigations' = navigations + 1
                       /\ pc' = "Running"
                       /\ UNCHANGED abort
                  ELSE Panic("dev_navigate") /\ UNCHANGED <<windowUrl, navigations>>
    /\ UNCHANGED <<mode, os, setupVars, childVars, handleVars, probeVars, zoom,
                   lastMenu>>

(***************************************************************************)
(* setup, production build                                                 *)
(***************************************************************************)
\* faulty variant: the URL is formatted from a second allocation
SelectPortTwice ==
    /\ pc = "prod_setup"
    /\ \E free \in get_free_port, again \in get_free_port :
          /\ port' = Some(unwrap_or(free, DEFAULT_PORT))
          /\ url' = ProdUrl(unwrap_or(again, DEFAULT_PORT))
    /\ log' = log_to_file(log_to_file(log_to_file(log,
                 "Production mode: Starting embedded Phoenix server"),
                 "Log file location"), "Selected port")
    /\ pc' = "phoenix_path"
    /\ UNCHANGED <<mode, os, abort, phoenix_path, config_dir, dirs, migration,
                   env, childVars, handleVars, probeVars, windowVars>>

\* the port and the URL
SelectPort ==
    /\ pc = "prod_setup"
    /\ \E free \in get_free_port :
          /\ port' = Some(unwrap_or(free, DEFAULT_PORT))
          /\ url' = ProdUrl(unwrap_or(free, DEFAULT_PORT))
    /\ log' = log_to_file(log_to_file(log_to_file(log,
                 "Production mode: Starting embedded Phoenix server"),
                 "Log file location"), "Selected port")
    /\ pc' = "phoenix_path"
    /\ UNCHANGED <<mode, os, abort, phoenix_path, config_dir, dirs, migration,
                   env, childVars, handleVars, probeVars, windowVars>>

\* app.path().resource_dir().expect(..).join("phoenix")...
ResolvePhoenixPath ==
    /\ pc = "phoenix_path"
    /\ \E resource_dir \in BOOLEAN :
          IF resource_dir
          THEN /\ phoenix_path' = PhoenixPath(os)
               /\ log' = log_to_file(log, "Phoenix executable path")
               /\ pc' = "exists"
               /\ UNCHANGED abort
          ELSE Panic("resource_dir") /\ UNCHANGED <<phoenix_path, log>>
    /\ UNCHANGED <<mode, os, port, url, env, config_dir, dirs, migration, childVars,
                   handleVars, probeVars, windowVars>>

\* faulty variant: a missing executable is logged and setup goes on
CheckExecutableLogsOnly ==
    /\ pc = "exists"
    /\ \E exists \in BOOLEAN :
          log' = IF exists
                 THEN log_to_file(log, "Phoenix executable found")
                 ELSE log_to_file(log, "ERROR: Phoenix executable not found")
    /\ pc' = "config_dir"
    /\ UNCHANGED <<mode, os, abort, setupVars, childVars, handleVars, probeVars,
                   windowVars>>

\* if !phoenix_path.exists() { log; panic }
CheckExecutable ==
    /\ pc = "exists"
    /\ \E exists \in BOOLEAN :
          IF exists
          THEN /\ log' = log_to_file(log, "Phoenix executable found")
               /\ pc' = "config_dir"
               /\ UNCHANGED abort
          ELSE /\ log' = log_to_file(log, "ERROR: Phoenix executable not found")
               /\ Panic("exe_missing")
    /\ UNCHANGED <<mode, os, setupVars, childVars, handleVars, probeVars,
                   windowVars>>

\* let config_dir = get_config_dir();
GetConfigDir ==
    /\ pc = "config_dir"
    /\ \E HOME \in HomeValues, USERPROFILE \in UserProfileValues,
          APPDATA \in AppDataValues :
          LET dir == get_config_dir(os, HOME, USERPROFILE, APPDATA)
          IN  /\ env' = <<HOME, USERPROFILE, APPDATA>>
              /\ IF dir = None
                 THEN Panic("home_dir") /\ UNCHANGED config_dir
                 ELSE /\ config_dir' = dir
                      /\ pc' = "create_dirs"
                      /\ UNCHANGED abort
    /\ UNCHANGED <<mode, os, log, port, url, phoenix_path, dirs, migration,
                   childVars, handleVars, probeVars, windowVars>>

\* faulty variant: the results of create_dir_all are dropped and setup goes on
CreateDirsIgnoresError ==
    /\ pc = "create_dirs"
    /\ \E failing \in {"none", "config", "db", "uploads"} :
          /\ dirs' = CASE failing = "config" -> dirs
                       [] failing = "db" -> dirs \cup {"config"}
                       [] failing = "uploads" -> dirs \cup {"config", "db"}
                       [] OTHER -> dirs \cup {"config", "db", "uploads"}
          /\ log' = log_to_file(log_to_file(log, "Database path"), "Upload directory")
    /\ pc' = "migrate"
    /\ UNCHANGED <<mode, os, abort, port, url, phoenix_path, config_dir,
                   migration, env, childVars, handleVars, probeVars, windowVars>>

\* the three create_dir_all(..).expect(..) with the log lines between them
CreateDirs ==
    /\ pc = "create_dirs"
    /\ \E failing \in {"none", "config", "db", "uploads"} :
          /\ dirs' = CASE failing = "config" -> dirs
                       [] failing = "db" -> dirs \cup {"config"}
                       [] failing = "uploads" -> dirs \cup {"config", "db"}
                       [] OTHER -> dirs \cup {"config", "db", "uploads"}
          /\ log' = CASE failing \in {"config", "db"} -> log
                      [] failing = "uploads" -> log_to_file(log, "Database path")
                      [] OTHER -> log_to_file(log_to_file(log, "Database path"),
                                              "Upload directory")
          /\ IF failing = "none"
             THEN pc' = "migrate" /\ UNCHANGED abort
             ELSE Panic("create_dir")
    /\ UNCHANGED <<mode, os, port, url, phoenix_path, config_dir, migration,
                   env, childVars, handleVars, probeVars, windowVars>>

\* faulty variant: a migration that fails ends the run, as with .expect()
RunMigrationsFatal ==
    /\ pc = "migrate"
    /\ \E result \in {"ok", "nonzero", "err"} :
          /\ migration' = result
          /\ IF result = "ok"
             THEN /\ log' = log_to_file(log_to_file(log, "Running database migrations..."),
                                        "Migrations completed successfully")
                  /\ pc' = "spawn"
                  /\ UNCHANGED abort
             ELSE /\ log' = log_to_file(log, "Running database migrations...")
                  /\ Panic("migration")
    /\ UNCHANGED <<mode, os, port, url, phoenix_path, config_dir, dirs,
                   env, childVars, handleVars, probeVars, windowVars>>

\* Step 1: Command::new(phoenix_path).arg("eval")...output() and the match
RunMigrations ==
    /\ pc = "migrate"
    /\ \E result \in {"ok", "nonzero", "err"} :
          /\ migration' = result
          /\ log' = LET l == log_to_file(log, "Running database migrations...")
                    IN  CASE result = "ok" ->
                               log_to_file(l, "Migrations completed successfully")
                          [] result = "nonzero" ->
                               log_to_file(log_to_file(log_to_file(l,
                                   "Migration stderr"), "Migration stdout"),
                                   "Migration completed with warnings")
                          [] OTHER ->
                               log_to_file(l, "Failed to run migrations")
    /\ pc' = "spawn"
    /\ UNCHANGED <<mode, os, abort, port, url, phoenix_path, config_dir, dirs,
                   env, childVars, handleVars, probeVars, windowVars>>

\* Step 2: cmd.env("PORT", port)...; cmd.spawn(): Ok logs the PID and locks
\* the mutex, Err logs and panics
SpawnServer ==
    /\ pc = "spawn"
    /\ spawnAttempts' = spawnAttempts + 1
    /\ \E spawned \in BOOLEAN :
          IF spawned
          THEN /\ mutex = "free"
               /\ log' = log_to_file(log_to_file(log, "Starting Phoenix server..."),
                                     "Phoenix server process started with PID")
               /\ child' = "starting"
               /\ childPort' = port
               /\ spawnCount' = spawnCount + 1
               /\ mutex' = "setup"
               /\ pc' = "store"
               /\ UNCHANGED abort
          ELSE /\ log' = log_to_file(log_to_file(log, "Starting Phoenix server..."),
                                     "Failed to spawn Phoenix server")
               /\ Panic("spawn")
               /\ UNCHANGED <<child, childPort, spawnCount, mutex>>
    /\ UNCHANGED <<mode, os, setupVars, external, acceptSince, phoenix_child,
                   storeCount, killCount, exitEvents, probeVars, windowVars>>

\* faulty variant: the guard outlives the arm, the mutex stays locked
StoreChildKeepsLock ==
    /\ pc = "store"
    /\ mutex = "setup"
    /\ phoenix_child' = Some("child")
    /\ storeCount' = storeCount + 1
    /\ log' = log_to_file(log, "Waiting for Phoenix server to be ready...")
    /\ probePort' = port
    /\ pc' = "wait_for_server"
    /\ UNCHANGED <<mode, os, abort, setupVars, childVars, mutex, spawnAttempts,
                   spawnCount, killCount, exitEvents, elapsed, sleepLeft, attempts,
                   seenSince, ready, windowVars>>

\* *phoenix_child_lock = Some(child); the guard is dropped at the end of the
\* arm; Step 3 begins with its log line and the call of wait_for_server(port)
StoreChild ==
    /\ pc = "store"
    /\ mutex = "setup"
    /\ phoenix_child' = Some("child")
    /\ storeCount' = storeCount + 1
    /\ mutex' = "free"
    /\ log' = log_to_file(log, "Waiting for Phoenix server to be ready...")
    /\ probePort' = port
    /\ pc' = "wait_for_server"
    /\ UNCHANGED <<mode, os, abort, setupVars, childVars, spawnAttempts,
                   spawnCount, killCount, exitEvents, elapsed, sleepLeft, attempts,
                   seenSince, ready, windowVars>>

\* faulty variant: a false result takes the child and kills it before the panic
ProdCheckedKillsOnTimeout ==
    /\ pc = "returned"
    /\ mode = "prod"
    /\ IF ready = "false"
       THEN /\ log' = log_to_file(log, "FATAL: Phoenix server failed to start")
            /\ phoenix_child' = None
            /\ killCount' = killCount + 1
            /\ child' = IF child \in {"starting", "listening"} THEN "killed" ELSE child
            /\ Panic("readiness")
       ELSE /\ log' = log_to_file(log, "Creating window with URL")
            /\ pc' = "create_window"
            /\ UNCHANGED <<abort, phoenix_child, killCount, child>>
    /\ ProbeLocalsDropped
    /\ UNCHANGED <<mode, os, setupVars, childPort, external, mutex,
                   spawnAttempts, spawnCount, storeCount, exitEvents,
                   probePort, ready, windowVars>>

\* faulty variant: a false result sends main back to the spawn step
ProdCheckedRetries ==
    /\ pc = "returned"
    /\ mode = "prod"
    /\ IF ready = "false"
       THEN /\ log' = log_to_file(log, "FATAL: Phoenix server failed to start")
            /\ pc' = "spawn"
       ELSE /\ log' = log_to_file(log, "Creating window with URL")
            /\ pc' = "create_window"
    /\ ProbeLocalsDropped
    /\ UNCHANGED <<mode, os, abort, setupVars, child, childPort, external,
                   handleVars, probePort, ready, windowVars>>

\* faulty variant: a false result is logged and the window is created anyway
ProdCheckedGoesOn ==
    /\ pc = "returned"
    /\ mode = "prod"
    /\ log' = IF ready = "false"
              THEN log_to_file(log_to_file(log, "FATAL: Phoenix server failed to start"),
                               "Creating window with URL")
              ELSE log_to_file(log, "Creating window with URL")
    /\ pc' = "create_window"
    /\ ProbeLocalsDropped
    /\ UNCHANGED <<mode, os, abort, setupVars, child, childPort, external,
                   handleVars, probePort, ready, windowVars>>

\* Step 3, the branch on the result of wait_for_server
ProdChecked ==
    /\ pc = "returned"
    /\ mode = "prod"
    /\ IF ready = "false"
       THEN /\ log' = log_to_file(log, "FATAL: Phoenix server failed to start")
            /\ Panic("readiness")
       ELSE /\ log' = log_to_file(log, "Creating window with URL")
            /\ pc' = "create_window"
            /\ UNCHANGED abort
    /\ ProbeLocalsDropped
    /\ UNCHANGED <<mode, os, setupVars, child, childPort, external, handleVars,
                   probePort, ready, windowVars>>

\* faulty variant: a failed build() is logged like a failed show()
CreateWindowIgnoresError ==
    /\ pc = "create_window"
    /\ \E built \in BOOLEAN :
          /\ IF built
             THEN /\ window' = "created"
                  /\ windowUrl' = url
                  /\ navigations' = navigations + 1
                  /\ log' = log_to_file(log, "Window created successfully")
             ELSE /\ log' = log_to_file(log, "Failed to create window")
                  /\ UNCHANGED <<window, windowUrl, navigations>>
          /\ pc' = "show"
          /\ UNCHANGED abort
    /\ UNCHANGED <<mode, os, setupVars, childVars, handleVars, probeVars, zoom,
                   lastMenu>>

\* Step 4: WebviewWindowBuilder::new(app, "main", External(url))...build()
CreateWindow ==
    /\ pc = "create_window"
    /\ \E built \in BOOLEAN :
          IF built
          THEN /\ window' = "created"
               /\ windowUrl' = url
               /\ navigations' = navigations + 1
               /\ log' = log_to_file(log, "Window created successfully")
               /\ pc' = "show"
               /\ UNCHANGED abort
          ELSE /\ log' = log_to_file(log, "Failed to create window")
               /\ Panic("window")
               /\ UNCHANGED <<window, windowUrl, navigations>>
    /\ UNCHANGED <<mode, os, setupVars, childVars, handleVars, probeVars, zoom,
                   lastMenu>>

\* window.show(): either arm only logs; then "Tauri setup complete", Ok(())
ShowWindow ==
    /\ pc = "show"
    /\ \E shown \in BOOLEAN :
          IF shown
          THEN /\ window' = "shown"
               /\ log' = log_to_file(log_to_file(log, "Window shown"),
                                     "Tauri setup complete")
          ELSE /\ log' = log_to_file(log_to_file(log, "Failed to show window"),
                                     "Tauri setup complete")
               /\ UNCHANGED window
    /\ pc' = "Running"
    /\ UNCHANGED <<mode, os, abort, setupVars, childVars, handleVars, probeVars,
                   windowUrl, navigations, zoom, lastMenu>>

(***************************************************************************)
(* The running application: menu events and the exit event                 *)
(***************************************************************************)
MenuIds == {"quit", "close", "zoom_in", "zoom_out", "zoom_reset"}

\* app.get_webview_window("main")
get_webview_window == window \in {"created", "shown"}

\* faulty variant: an unset zoom is not read as 1
ScaleWithoutDefault == zoom

\* parseFloat(document.body.style.zoom || 1), in tenths
Scale == IF zoom = 0 THEN 10 ELSE zoom

\* the closure given to app.on_menu_event
MenuEvent ==
    /\ pc = "Running"
    /\ \E id \in MenuIds :
          /\ lastMenu' = <<id, zoom>>
          /\ CASE id = "quit" ->
                 /\ pc' = "Terminating"
                 /\ UNCHANGED <<window, zoom>>
            [] id = "close" ->
                 /\ window' = IF get_webview_window THEN "closed" ELSE window
                 /\ UNCHANGED <<pc, zoom>>
            [] id = "zoom_in" ->
                 /\ Scale < MaxZoom
                 /\ zoom' = IF get_webview_window THEN Scale + 1 ELSE zoom
                 /\ UNCHANGED <<pc, window>>
            [] id = "zoom_out" ->
                 /\ zoom' = IF get_webview_window
                            THEN (IF Scale - 1 > 1 THEN Scale - 1 ELSE 1)
                            ELSE zoom
                 /\ UNCHANGED <<pc, window>>
            [] OTHER ->
                 /\ zoom' = IF get_webview_window THEN 10 ELSE zoom
                 /\ UNCHANGED <<pc, window>>
    /\ UNCHANGED <<mode, os, abort, log, setupVars, childVars, handleVars,
                   probeVars, windowUrl, navigations>>

\* the host decides to exit for a reason other than the quit item (the last
\* window was closed, the session ends)
ExitRequested ==
    /\ pc = "Running"
    /\ pc' = "Terminating"
    /\ UNCHANGED <<mode, os, abort, log, setupVars, childVars, handleVars,
                   probeVars, windowVars>>

\* faulty variant: the handler signals the child without take()
ExitHandlerKeepsChild ==
    /\ pc = "Terminating"
    /\ exitEvents < MaxExitEvents
    /\ mutex = "free"
    /\ exitEvents' = exitEvents + 1
    /\ IF mode = "prod" /\ phoenix_child # None
       THEN /\ killCount' = killCount + 1
            /\ child' = IF child \in {"starting", "listening"} THEN "killed" ELSE child
            /\ acceptSince' = IF child = "listening" THEN NoTime ELSE acceptSince
       ELSE UNCHANGED <<killCount, child, acceptSince>>
    /\ UNCHANGED <<mode, os, pc, abort, log, setupVars, childPort, external,
                   phoenix_child, mutex, spawnAttempts, spawnCount, storeCount,
                   probeVars, windowVars>>

\* the closure given to .run(), on RunEvent::Exit
ExitHandler ==
    /\ pc = "Terminating"
    /\ exitEvents < MaxExitEvents
    /\ mutex = "free"
    /\ exitEvents' = exitEvents + 1
    /\ IF mode = "prod" /\ phoenix_child # None
       THEN /\ phoenix_child' = None
            /\ killCount' = killCount + 1
            /\ child' = IF child \in {"starting", "listening"} THEN "killed" ELSE child
            /\ acceptSince' = IF child = "listening" THEN NoTime ELSE acceptSince
       ELSE UNCHANGED <<phoenix_child, killCount, child, acceptSince>>
    /\ UNCHANGED <<mode, os, pc, abort, log, setupVars, childPort, external,
                   mutex, spawnAttempts, spawnCount, storeCount, probeVars,
                   windowVars>>

\* the event loop has run the exit handler and the process ends
ProcessExit ==
    /\ pc = "Terminating"
    /\ exitEvents >= 1
    /\ pc' = "Terminated"
    /\ UNCHANGED <<mode, os, abort, log, setupVars, childVars, handleVars,
                   probeVars, windowVars>>

Next ==
    \/ ChildListens
    \/ ChildExits
    \/ ExternalListens
    \/ WaitEnter
    \/ Probe
    \/ SleepTick
    \/ DevCheck
    \/ DevChecked
    \/ BuildApp
    \/ CreateMenu
    \/ DevNavigate
    \/ SelectPort
    \/ ResolvePhoenixPath
    \/ CheckExecutable
    \/ GetConfigDir
    \/ CreateDirs
    \/ RunMigrations
    \/ SpawnServer
    \/ StoreChild
    \/ ProdChecked
    \/ CreateWindow
    \/ ShowWindow
    \/ MenuEvent
    \/ ExitRequested
    \/ ExitHandler
    \/ ProcessExit

Spec == Init /\ [][Next]_vars

\* the steps main and the setup closure execute one after the other, each a
\* call that returns, up to the event loop; Command::output of the migration
\* is left out: it waits for the subprocess without any timeout
StartupStep ==
    \/ WaitEnter
    \/ Probe
    \/ SleepTick
    \/ DevCheck
    \/ DevChecked
    \/ BuildApp
    \/ CreateMenu
    \/ DevNavigate
    \/ SelectPort
    \/ ResolvePhoenixPath
    \/ CheckExecutable
    \/ GetConfigDir
    \/ CreateDirs
    \/ SpawnServer
    \/ StoreChild
    \/ ProdChecked
    \/ CreateWindow
    \/ ShowWindow

\* the main thread keeps running: a startup step that can be taken is taken
SpecLive == Spec /\ WF_vars(StartupStep)

(***************************************************************************)
(* Properties                                                              *)
(***************************************************************************)
Returned == pc = "returned"
Terminated == pc = "Terminated"
InEventLoop == pc \in {"Running", "Terminating"}
Probing == pc \in {"probe", "sleep"}

\* C1, as stated: in both modes the window has been given the backend URL
\* only if wait_for_server has returned true in this run.
C1_UrlOnlyAfterReady ==
    windowUrl # NoUrl => ready = "true"

\* C1, amended: the window is given the URL only after wait_for_server has
\* returned; in a production build only after it has returned true (a
\* development build navigates whatever the result was).
C1_UrlAfterProbe_ReadyInProd ==
    windowUrl # NoUrl =>
        /\ ready \in {"true", "false"}
        /\ mode = "prod" => ready = "true"

C1_Witness ==
    /\ mode = "prod"
    /\ ready = "true"
    /\ windowUrl = ProdUrl(port[1])
    /\ window = "shown"

\* C2: whenever the process has ended after the server child was spawned,
\* child.kill() has been called on that child.
C2_SpawnedChildSignaledAtEnd ==
    (Terminated /\ spawnCount >= 1) => killCount >= 1

\* C3: once the child is stored, the handle holds it until the exit handler
\* runs; after the exit handler has run (once or more) the handle is empty
\* and child.kill() has been called exactly once in total.
C3_HandleHeldThenKilledOnce ==
    /\ (storeCount >= 1 /\ exitEvents = 0) =>
           (phoenix_child = Some("child") /\ killCount = 0)
    /\ (storeCount >= 1 /\ exitEvents >= 1) =>
           (phoenix_child = None /\ killCount = 1)

C3_Witness ==
    /\ storeCount = 1
    /\ exitEvents >= 2
    /\ killCount = 1
    /\ phoenix_child = None

\* C4: cmd.spawn() is called at most once in a run and the handle is written
\* with a child at most once, also when the child exits or the probe fails.
C4_SpawnedAtMostOnce ==
    /\ spawnAttempts <= 1
    /\ spawnCount <= 1
    /\ storeCount <= 1

C4_Witness ==
    /\ spawnCount = 1
    /\ storeCount = 1
    /\ child = "exited"
    /\ ready = "false"
    /\ abort = "readiness"

\* C5: a probe that returns false does so no earlier than the timeout T and no
\* later than T + I; the probe is never still looping after T + I; and it
\* returns true only on an attempt at which the port accepted.
C5_FalseBetweenTAndTPlusI ==
    /\ (Returned /\ ready = "false") =>
           (TimeoutMillis <= elapsed /\ elapsed <= TimeoutMillis + SleepMillis)
    /\ Probing => elapsed <= TimeoutMillis + SleepMillis
    /\ (Returned /\ ready = "true") => seenSince # NoTime

C5_Witness ==
    /\ Returned
    /\ ready = "false"
    /\ ~is_port_reachable
    /\ elapsed = TimeoutMillis

\* C6, as stated: a port that began accepting at some t < T, and still
\* accepts, is seen within one interval: the probe does not return false, is
\* not still looping more than I after t, and returns true at most I after t.
C6_AcceptBeforeTSeenWithinI ==
    /\ (Returned /\ ready = "false" /\ is_port_reachable) =>
           acceptSince >= TimeoutMillis
    /\ (Probing /\ is_port_reachable) => elapsed - acceptSince <= SleepMillis
    /\ (Returned /\ ready = "true") => elapsed - seenSince <= SleepMillis

\* C6, amended: the same for a port that began accepting at some t < T - I
\* (the last attempt is made at T - I; a port that opens after it is missed).
C6_AcceptBeforeLastAttemptSeenWithinI ==
    /\ (Returned /\ ready = "false" /\ is_port_reachable) =>
           acceptSince >= TimeoutMillis - SleepMillis
    /\ (Probing /\ is_port_reachable) => elapsed - acceptSince <= SleepMillis
    /\ (Returned /\ ready = "true") => elapsed - seenSince <= SleepMillis

C6_Witness ==
    /\ Returned
    /\ ready = "true"
    /\ seenSince = TimeoutMillis - SleepMillis - Granule
    /\ elapsed = TimeoutMillis - SleepMillis

\* C7: after a migration that exited nonzero or could not be run, the outcome
\* is in the log, the process was not ended by it, and main is at the spawn
\* step or has called cmd.spawn().
C7_MigrationFailureNotFatal ==
    migration \in {"nonzero", "err"} =>
        /\ abort # "migration"
        /\ pc = "spawn" \/ spawnAttempts >= 1
        /\ migration = "nonzero" => Logged("Migration completed with warnings")
        /\ migration = "err" => Logged("Failed to run migrations")

C7_Witness ==
    /\ migration = "err"
    /\ spawnCount = 1
    /\ pc = "Running"

\* C8, as stated: in both modes, once wait_for_server has returned false the
\* run only ends: no window exists or is navigated and main goes nowhere but
\* to Terminated.
C8_TimeoutFatalInBothModes ==
    ready = "false" =>
        /\ pc \in {"returned", "Terminated"}
        /\ window = "none"
        /\ windowUrl = NoUrl

\* C8, amended: in a production build a false result is logged and ends the
\* run by panic with no window; in a development build it is logged and main
\* goes on.
C8_TimeoutFatalInProd ==
    /\ (mode = "prod" /\ ready = "false") =>
           /\ pc \in {"returned", "Terminated"}
           /\ window = "none"
           /\ windowUrl = NoUrl
           /\ Logged("Phoenix server failed to start within 30 seconds")
           /\ Terminated =>
                  (abort = "readiness" /\ Logged("FATAL: Phoenix server failed to start"))
    /\ (mode = "dev" /\ ready = "false" /\ ~Returned) =>
           Logged("ERROR: Phoenix server not running on port")

C8_Witness ==
    /\ mode = "prod"
    /\ ready = "false"
    /\ Terminated
    /\ spawnCount = 1

\* the line log_to_file would have to hold for each fatal condition
ErrorLine(cause) ==
    CASE cause = "home_dir" -> "Failed to get home directory"
      [] cause = "resource_dir" -> "Failed to get resource dir"
      [] cause = "exe_missing" -> "ERROR: Phoenix executable not found"
      [] cause = "create_dir" -> "Failed to create directory"
      [] cause = "spawn" -> "Failed to spawn Phoenix server"
      [] cause = "readiness" -> "FATAL: Phoenix server failed to start"
      [] OTHER -> "Failed to create window"

\* C9: when the process has ended by one of the eight error conditions, a line
\* for that condition is in the log; a failed migration is in the log too.
C9_EveryErrorLoggedBeforeExit ==
    /\ (Terminated /\ abort \in {"home_dir", "resource_dir", "exe_missing",
                                 "create_dir", "spawn", "readiness", "window"}) =>
           Logged(ErrorLine(abort))
    /\ (Terminated /\ migration \in {"nonzero", "err"}) =>
           (Logged("Migration completed with warnings")
                \/ Logged("Failed to run migrations"))

\* C10, as stated: a failure to create or to show the window (production), or
\* to get or navigate it (development), ends the run before setup completes.
C10_WindowErrorsFatal ==
    /\ (Logged("Failed to create window") \/ Logged("Failed to show window")) =>
           (Terminated /\ abort # "none" /\ ~Logged("Tauri setup complete"))
    /\ (mode = "dev" /\ InEventLoop) => windowUrl = DevUrl

\* C10, amended: a failure to create the window ends the run by panic before
\* setup completes; a failure to show it is logged and setup completes; a
\* development run is in the event loop only with the window navigated.
C10_WindowCreationFatal_ShowLogged ==
    /\ Logged("Failed to create window") =>
           (Terminated /\ abort = "window" /\ ~Logged("Tauri setup complete"))
    /\ Logged("Failed to show window") =>
           (abort = "none" /\ Logged("Tauri setup complete")
               /\ (InEventLoop \/ Terminated))
    /\ (mode = "prod" /\ InEventLoop) => (windowUrl = url /\ url # NoUrl)
    /\ (mode = "dev" /\ InEventLoop) => windowUrl = DevUrl

C10_Witness ==
    /\ Logged("Failed to show window")
    /\ pc = "Running"
    /\ window = "created"

AllDirs == {"config", "db", "uploads"}

\* C11: the migration and the server are launched only after the config, db
\* and uploads directories were all created in this run; a run ended by an
\* unresolvable home directory or a failed directory creation has launched no
\* process.
C11_DirsBeforeEveryProcess ==
    /\ (migration # "none" \/ spawnAttempts >= 1 \/ child # "unspawned") =>
           dirs = AllDirs
    /\ pc \in {"migrate", "spawn"} => dirs = AllDirs
    /\ abort \in {"home_dir", "create_dir"} =>
           (migration = "none" /\ spawnAttempts = 0 /\ child = "unspawned")
    /\ abort = "create_dir" => dirs # AllDirs

C11_Witness ==
    /\ dirs = AllDirs
    /\ migration = "ok"
    /\ spawnCount = 1
    /\ child = "listening"

\* C12: a development run creates no directory, runs no migration, spawns no
\* child, never holds a child in the handle and calls no child.kill(), also
\* in the exit handler; it chooses no port and probes only DEFAULT_PORT; it
\* is never ended by the probe, and it builds the application only once the
\* probe has returned.
C12_DevOnlyProbesDefaultPort ==
    mode = "dev" =>
        /\ dirs = {} /\ config_dir = None /\ migration = "none"
        /\ spawnAttempts = 0 /\ child = "unspawned" /\ childPort = None
        /\ phoenix_child = None /\ storeCount = 0 /\ killCount = 0
        /\ port = None
        /\ probePort \in {None, Some(DEFAULT_PORT)}
        /\ abort # "readiness"
        /\ pc \in {"build", "setup", "dev_setup", "Running", "Terminating"} =>
               (ready \in {"true", "false"} /\ probePort = Some(DEFAULT_PORT))

C12_Witness ==
    /\ mode = "dev"
    /\ ready = "true"
    /\ Terminated
    /\ exitEvents >= 1
    /\ killCount = 0

\* <home> of the three rules: HOME, or else USERPROFILE
RuleHome == IF env[1] # None THEN env[1][1] ELSE env[2][1]
Homeless == env[1] = None /\ env[2] = None

\* C13, as stated: once get_config_dir has read the environment, it has
\* failed exactly when neither HOME nor USERPROFILE is set, and otherwise the
\* directory is <home>/Library/Application Support/clientats on macOS,
\* %APPDATA%/clientats on Windows and <home>/.config/clientats elsewhere.
C13_ConfigDirOfThreeRules ==
    env # None =>
        /\ (abort = "home_dir") <=> Homeless
        /\ Homeless => config_dir = None
        /\ (~Homeless /\ os = "macos") =>
               config_dir = Some(<<RuleHome, "Library", "Application Support", "clientats">>)
        /\ (~Homeless /\ os = "windows") =>
               (env[3] # None /\ config_dir = Some(<<env[3][1], "clientats">>))
        /\ (~Homeless /\ os = "linux") =>
               config_dir = Some(<<RuleHome, ".config", "clientats">>)

\* C13, amended: the same, but on Windows the directory is %APPDATA%/clientats
\* only when APPDATA is set, and <home>/AppData/Roaming/clientats when not.
C13_ConfigDirWithAppDataFallback ==
    env # None =>
        /\ (abort = "home_dir") <=> Homeless
        /\ Homeless => config_dir = None
        /\ (~Homeless /\ os = "macos") =>
               config_dir = Some(<<RuleHome, "Library", "Application Support", "clientats">>)
        /\ (~Homeless /\ os = "windows" /\ env[3] # None) =>
               config_dir = Some(<<env[3][1], "clientats">>)
        /\ (~Homeless /\ os = "windows" /\ env[3] = None) =>
               config_dir = Some(<<RuleHome, "AppData", "Roaming", "clientats">>)
        /\ (~Homeless /\ os = "linux") =>
               config_dir = Some(<<RuleHome, ".config", "clientats">>)

C13_Witness ==
    /\ os = "windows"
    /\ env = <<None, Some("C:/Users/u"), None>>
    /\ config_dir = Some(<<"C:/Users/u", "AppData", "Roaming", "clientats">>)

\* the scale a zoom value stands for, in tenths: unset is 1.0
RefScale(z) == IF z = 0 THEN 10 ELSE z
RefMax(a, b) == IF a > b THEN a ELSE b

\* C14: after a zoom command dispatched with the main window present, the
\* scale (in tenths) is the scale the command found plus one for zoom_in,
\* the larger of one and that scale minus one for zoom_out, and ten for
\* zoom_reset; without a window the command changes nothing; a set scale is
\* never below one tenth.
C14_ZoomMatchesReference ==
    /\ zoom = 0 \/ zoom >= 1
    /\ (lastMenu # None /\ get_webview_window) =>
           /\ lastMenu[1] = "zoom_in" => zoom = RefScale(lastMenu[2]) + 1
           /\ lastMenu[1] = "zoom_out" => zoom = RefMax(1, RefScale(lastMenu[2]) - 1)
           /\ lastMenu[1] = "zoom_reset" => zoom = 10
    /\ (lastMenu # None /\ ~get_webview_window
          /\ lastMenu[1] \in {"zoom_in", "zoom_out", "zoom_reset"}) =>
           zoom = lastMenu[2]

C14_Witness ==
    /\ zoom = 13
    /\ lastMenu = <<"zoom_in", 12>>
    /\ get_webview_window

\* C15: once the executable was found missing or cmd.spawn() has failed, the
\* run has ended there by panic with the failure in the log, the handle
\* empty, no child, wait_for_server never called and no window.
C15_SpawnErrorsAbortStartup ==
    (Logged("ERROR: Phoenix executable not found")
        \/ Logged("Failed to spawn Phoenix server")) =>
        /\ Terminated
        /\ abort \in {"exe_missing", "spawn"}
        /\ abort = "exe_missing" => spawnAttempts = 0
        /\ child = "unspawned" /\ spawnCount = 0
        /\ phoenix_child = None /\ storeCount = 0
        /\ probePort = None /\ ready = "unknown"
        /\ ~Logged("Waiting for Phoenix server on port")
        /\ window = "none" /\ windowUrl = NoUrl /\ navigations = 0

C15_Witness ==
    /\ Logged("Failed to spawn Phoenix server")
    /\ abort = "spawn"
    /\ spawnAttempts = 1
    /\ Terminated

\* C16: every step that calls child.kill() is a step of the exit handler, taken
\* from the exiting event loop, that finds the child in the handle, takes it
\* out and calls kill once, leaving the run where the process can end at once;
\* no other step signals the child or empties the handle.
C16_KillOnlyInExitHandler ==
    [][ /\ killCount' # killCount =>
              /\ pc = "Terminating" /\ pc' = "Terminating"
              /\ exitEvents' = exitEvents + 1
              /\ phoenix_child = Some("child") /\ phoenix_child' = None
              /\ killCount' = killCount + 1
              /\ child' \in {"killed", "exited"}
        /\ (child' = "killed" /\ child # "killed") => killCount' = killCount + 1
        /\ (phoenix_child # None /\ phoenix_child' = None) =>
              killCount' = killCount + 1
      ]_vars

C16_Witness ==
    /\ killCount = 1
    /\ child = "killed"
    /\ phoenix_child = None
    /\ exitEvents = 1
    /\ pc = "Terminating"
    /\ lastMenu # None /\ lastMenu[1] = "quit"

\* C17: the mutex is held by setup exactly between locking it after the spawn
\* and storing the child; it is free during the migration, the readiness
\* loop, the window creation and whenever the event loop runs, so the exit
\* handler can take it; and every step that changes the handle either holds
\* the mutex before it and releases it, or is the exit handler locking a free
\* mutex.
C17_LockHeldOnlyToStoreAndTake ==
    /\ [](/\ mutex \in {"free", "setup"}
          /\ (mutex = "setup") <=> (pc = "store")
          /\ pc \in {"migrate", "spawn", "wait_for_server", "probe", "sleep",
                     "returned", "create_window", "show", "Running",
                     "Terminating"} => mutex = "free"
          /\ (pc = "Terminating" /\ exitEvents < MaxExitEvents) => ENABLED ExitHandler)
    /\ [][phoenix_child' # phoenix_child =>
              \/ (pc = "store" /\ mutex = "setup" /\ mutex' = "free")
              \/ (pc = "Terminating" /\ mutex = "free" /\ mutex' = "free"
                    /\ exitEvents' = exitEvents + 1)]_vars

C17_Witness ==
    /\ pc = "store"
    /\ mutex = "setup"
    /\ child = "starting"
    /\ phoenix_child = None

\* C18 as stated: once a URL has been handed to the window, it was handed
\* exactly once, it has the form http://127.0.0.1:<port>, and its port is the
\* probed port and, where a child was spawned, the child's PORT; the port is
\* an ephemeral one or 4000.
C18_OneLoopbackUrlInEveryMode ==
    navigations >= 1 =>
        /\ navigations = 1
        /\ windowUrl[1] = "http"
        /\ windowUrl[2] = "127.0.0.1"
        /\ windowUrl[3] \in EphemeralPorts \cup {DEFAULT_PORT}
        /\ probePort = Some(windowUrl[3])
        /\ childPort # None => childPort = Some(windowUrl[3])

\* C18, amended: in a production run the port and the URL are assigned once
\* and never change, PORT of the child, the probed port and the port of the
\* URL are that one value (ephemeral or 4000), the URL is
\* http://127.0.0.1:<port>, and the window is built from it exactly once when
\* the event loop is reached; a development run spawns nothing, probes 4000
\* on 127.0.0.1 and navigates the window exactly once to
\* http://localhost:4000.
C18_EndpointChosenOnce ==
    /\ [](/\ navigations <= 1
          /\ InEventLoop => navigations = 1
          /\ mode = "prod" =>
                /\ port # None =>
                      /\ port[1] \in EphemeralPorts \cup {DEFAULT_PORT}
                      /\ url = ProdUrl(port[1])
                /\ childPort # None => childPort = port
                /\ probePort # None => probePort = port
                /\ navigations = 1 =>
                      /\ windowUrl = ProdUrl(port[1])
                      /\ childPort = port /\ probePort = port
          /\ mode = "dev" =>
                /\ port = None /\ childPort = None /\ child = "unspawned"
                /\ probePort # None => probePort = Some(DEFAULT_PORT)
                /\ navigations = 1 =>
                      /\ windowUrl = <<"http", "localhost", DEFAULT_PORT>>
                      /\ probePort = Some(DEFAULT_PORT))
    /\ [][/\ port # None => port' = port
          /\ url # NoUrl => url' = url
          /\ childPort # None => childPort' = childPort
          /\ probePort # None => probePort' = probePort
          /\ windowUrl # NoUrl => windowUrl' = windowUrl]_vars

C18_Witness ==
    /\ mode = "prod"
    /\ pc = "Running"
    /\ port \in {Some(p) : p \in EphemeralPorts}
    /\ childPort = port /\ probePort = port
    /\ windowUrl = ProdUrl(port[1])
    /\ navigations = 1

\* C19: when wait_for_server has returned true in a production run, the
\* process accepting on the chosen port is the spawned child, which is
\* alive, and no other process is the one listening there.
C19_ReadyMeansTrackedChildListens ==
    (mode = "prod" /\ pc = "returned" /\ ready = "true") =>
        /\ child = "listening"
        /\ childPort = probePort
        /\ ~external

\* the number of loop iterations that fit into the wait
MaxAttempts == TimeoutMillis \div SleepMillis

\* C20: a call of wait_for_server makes at most T/I attempts, each attempt
\* after the first follows a full sleep of I, and a production run either
\* reaches the event loop or ends, or it stays for ever in the migration
\* call, the only step at which startup can stay for ever.
C20_StartupFinishesUnlessMigrationHangs ==
    /\ [](/\ attempts <= MaxAttempts
          /\ pc = "probe" => (sleepLeft = 0 /\ elapsed = attempts * SleepMillis)
          /\ (pc = "returned" /\ ready = "false") => attempts = MaxAttempts)
    /\ [][(pc = "probe" /\ pc' = "sleep") =>
              (attempts' = attempts + 1 /\ sleepLeft' = SleepMillis)]_vars
    /\ mode = "prod" =>
          \/ <>(pc \in {"Running", "Terminated"})
          \/ <>[](pc = "migrate")

C20_Witness ==
    /\ mode = "prod"
    /\ pc = "returned"
    /\ ready = "false"
    /\ attempts = MaxAttempts
    /\ migration # "none"
    /\ child = "starting"

====
